---- MODULE Spec2Model ----
(***************************************************************************)
(* Connection / transaction lifecycle and error normalisation of sfo-sql   *)
(* (src/src/db_helper.rs, src/src/sqlite.rs), SQLite backend.              *)
(*                                                                         *)
(* The sqlx driver is an external collaborator.  Its primitives are        *)
(* modelled by what sqlx documents for them:                               *)
(*   - a session keeps a transaction depth; begin issues BEGIN at depth 0  *)
(*     and SAVEPOINT above it, commit issues COMMIT at depth 1 and RELEASE *)
(*     SAVEPOINT above it, rollback issues ROLLBACK at depth 1 and         *)
(*     ROLLBACK TO SAVEPOINT above it;                                     *)
(*   - commit() and rollback() consume the Transaction handle; a handle    *)
(*     dropped while still open queues a rollback at the session's current *)
(*     depth, which takes effect before the session's next command;        *)
(*   - uncommitted writes of a session are visible to that session only;   *)
(*     SQLite admits one writer at a time (the others get SQLITE_BUSY).    *)
(*                                                                         *)
(* Specifications: Spec (the pool and the connection methods of           *)
(* db_helper.rs on a table whose id is the PRIMARY KEY), SpecAnyKey (id PRIMARY KEY or UNIQUE), FairSpec (the      *)
(* connection lifecycle, with the completion of acquire and of drop),      *)
(* CatalogSpec (the lifecycle and SQLite's two catalog checks) and MapSpec *)
(* (the Error Normalizer called on its own).                               *)
(*                                                                         *)
(* begin_transaction extends its borrow to 'static with transmute, so a    *)
(* second call reaches the session while the first Transaction still       *)
(* borrows it.  The built code then begins at the session's current depth  *)
(* and drops the first handle on assignment; that is what is modelled.     *)
(***************************************************************************)
EXTENDS Integers, Sequences, FiniteSets, TLC

\* ---- bounds of the model -------------------------------------------------
NumTasks == 2          \* concurrent caller tasks
MaxConnections == 1    \* max_connections given to SqlPool::open
MaxKey == 1            \* ids 1..MaxKey of the rows of table t

Tasks == 1 .. NumTasks
PoolSessions == 1 .. MaxConnections
Sessions == 1 .. (MaxConnections + NumTasks)
Keys == 1 .. MaxKey

\* the session a standalone SqlConnection::open of task t connects
StandaloneSession(t) == MaxConnections + t

VARIABLES
    keyKind,   \* schema of table t: id is its "PrimaryKey" or a "UniqueKey"
    db,        \* committed rows of table t (their ids)
    txs,       \* per session: stack of uncommitted write sets, one per depth
    slot,      \* per pool session: "idle" (acquirable) or "leased"
    pc,        \* per task: "idle", "waiting" (in get_conn), "holding", and
               \* inside Drop: "rolled_back" (the if-branch ran) or "dropped"
    conn,      \* per task: its SqlConnection {conn, trans}
    last,      \* the last operation: what it was called on and what it did
    norm       \* a direct call of the Error Normalizer: its arguments, result

vars == <<keyKind, db, txs, slot, pc, conn, last, norm>>

\* ---- SqlErrorCode and the native errors ----------------------------------
SqlErrorCode == {"Failed", "NotFound", "AlreadyExists"}

NoError == [kind |-> "none", code |-> "none"]
RowNotFound == [kind |-> "RowNotFound", code |-> "none"]
Io == [kind |-> "Io", code |-> "none"]
PoolTimedOut == [kind |-> "PoolTimedOut", code |-> "none"]
Database(code) == [kind |-> "Database", code |-> code]

\* SQLite extended result codes, as sqlx reports them in DatabaseError::code()
SQLITE_ERROR == "1"
SQLITE_BUSY == "5"
SQLITE_CONSTRAINT_PRIMARYKEY == "1555"
SQLITE_CONSTRAINT_UNIQUE == "2067"

\* ---- Error Normalizer (sqlite.rs, RawErrorToSqlError::map) ---------------
\* (variant: a normalizer without the RowNotFound arm)
map_without_row_not_found(e, msg) ==
    IF e.kind = "Database"
    THEN IF e.code # "none" /\ e.code = "1555"
         THEN [code |-> "AlreadyExists", msg |-> "already exists"]
         ELSE [code |-> "Failed", msg |-> msg]
    ELSE [code |-> "Failed", msg |-> ""]

map(e, msg) ==
    IF e.kind = "RowNotFound"
    THEN [code |-> "NotFound", msg |-> "not found"]
    ELSE IF e.kind = "Database"
         THEN IF e.code # "none" /\ e.code = "1555"
              THEN [code |-> "AlreadyExists", msg |-> "already exists"]
              ELSE [code |-> "Failed", msg |-> msg]
         ELSE [code |-> "Failed", msg |-> ""]

\* Result<_, EM::OutError> of `.map_err(|e| EM::map(e, ...))`, its code only
map_err(e, msg) == IF e = NoError THEN "Ok" ELSE map(e, msg).code

\* ---- the Error Normalizer called on its own --------------------------------
\* the native errors (sqlx::Error values) the normalizer is given: no row, an
\* I/O failure, a pool time-out, a closed pool, a malformed URI, and database
\* errors without a code or with one of SQLite's codes
NativeErrors ==
    {RowNotFound, Io, PoolTimedOut,
     [kind |-> "PoolClosed", code |-> "none"],
     [kind |-> "Configuration", code |-> "none"]}
    \cup {Database(c) : c \in {"none", SQLITE_ERROR, SQLITE_BUSY,
                               SQLITE_CONSTRAINT_PRIMARYKEY,
                               SQLITE_CONSTRAINT_UNIQUE}}

\* the context messages of the call sites: the operation tags, the uri, and
\* the text of a statement
Contexts ==
    {"begin trans", "rollback trans", "commit trans", "uri",
     "insert into t", "select from t", "bad sql"}

NoCall == [e |-> NoError, msg |-> "", done |-> FALSE, out |-> [code |-> "Ok", msg |-> ""]]

\* a native error and a context message, about to be normalized
MapInit ==
    /\ keyKind = "PrimaryKey"
    /\ db = {}
    /\ txs = [s \in Sessions |-> <<>>]
    /\ slot = [s \in PoolSessions |-> "idle"]
    /\ pc = [t \in Tasks |-> "idle"]
    /\ conn = [t \in Tasks |-> [kind |-> "None", sid |-> 0, trans |-> FALSE]]
    /\ last = [op |-> "map", hadTrans |-> FALSE, via |-> "none", res |-> "Pending",
               log |-> <<>>, n |-> 0, failed |-> FALSE]
    /\ norm \in {[NoCall EXCEPT !.e = e, !.msg = m] : e \in NativeErrors, m \in Contexts}

\* EM::map(e, msg)
normalize ==
    /\ ~norm.done
    /\ norm' = [norm EXCEPT !.done = TRUE, !.out = map(norm.e, norm.msg)]
    /\ last' = [last EXCEPT !.res = map(norm.e, norm.msg).code]
    /\ UNCHANGED <<keyKind, db, txs, slot, pc, conn>>

MapNext == normalize

MapSpec == MapInit /\ [][MapNext]_vars

\* ---- statements (SqlQuery values; opaque to the core) --------------------
Insert(k) == [op |-> "insert", key |-> k]    \* insert into t (id) values (k)
Select(k) == [op |-> "select", key |-> k]    \* select * from t where id = k
BadSql == [op |-> "bad", key |-> 0]          \* syntactically invalid text
Statements == {Insert(k) : k \in Keys} \cup {Select(k) : k \in Keys} \cup {BadSql}

\* ---- the catalog (sqlite_master) and the two catalog queries --------------
\* the stored definition text of table t, character by character
TableSql == <<"t", "(", "i", "d", ")">>

\* the rows of sqlite_master: table t and an index on it
sqlite_master ==
    {[type |-> "table", name |-> "t", tbl_name |-> "t", sql |-> TableSql],
     [type |-> "index", name |-> "t_idx", tbl_name |-> "t", sql |-> <<>>]}

\* text LIKE '%pat%'
Like(text, pat) ==
    \E i \in 1 .. (Len(text) - Len(pat) + 1) :
        SubSeq(text, i, i + Len(pat) - 1) = pat

\* select * from sqlite_master where type='table' and tbl_name=?1 and sql like ?2
ColumnQuery(table_name, column_name) ==
    [op |-> "master", key |-> 0, type |-> "table", tbl_name |-> table_name,
     arg |-> column_name]
\* select * from sqlite_master where type='index' and tbl_name=?1 and name=?2
IndexQuery(table_name, index_name) ==
    [op |-> "master", key |-> 0, type |-> "index", tbl_name |-> table_name,
     arg |-> index_name]

\* the names of the sqlite_master rows a catalog query selects
Master(q) ==
    {r.name : r \in {m \in sqlite_master :
                        /\ m.type = q.type
                        /\ m.tbl_name = q.tbl_name
                        /\ IF q.type = "table" THEN Like(m.sql, q.arg)
                           ELSE m.name = q.arg}}

\* ---- driver: what a session sees and how it runs a statement -------------
RECURSIVE Pending(_)
Pending(stack) ==
    IF stack = <<>> THEN {} ELSE Head(stack) \cup Pending(Tail(stack))

\* rows visible to session s: the committed ones and its own uncommitted ones
Visible(s) == db \cup Pending(txs[s])

\* SQLite's single writer: another session holds uncommitted writes
WriteLocked(s) == \E o \in Sessions \ {s} : Pending(txs[o]) # {}

\* The driver runs statement q on session s; fail is an I/O failure of the
\* call.  err: the native error; rows: the rows produced; writes: the rows
\* written.
Run(s, q, fail) ==
    IF fail
    THEN [err |-> Io, rows |-> {}, writes |-> {}]
    ELSE IF q.op = "bad"
    THEN [err |-> Database(SQLITE_ERROR), rows |-> {}, writes |-> {}]
    ELSE IF q.op = "select"
    THEN [err |-> NoError, rows |-> {q.key} \cap Visible(s), writes |-> {}]
    ELSE IF q.op = "master"
    THEN [err |-> NoError, rows |-> Master(q), writes |-> {}]
    ELSE IF WriteLocked(s)
    THEN [err |-> Database(SQLITE_BUSY), rows |-> {}, writes |-> {}]
    ELSE IF q.key \in Visible(s)
    THEN [err |-> Database(IF keyKind = "PrimaryKey"
                           THEN SQLITE_CONSTRAINT_PRIMARYKEY
                           ELSE SQLITE_CONSTRAINT_UNIQUE),
          rows |-> {}, writes |-> {}]
    ELSE [err |-> NoError, rows |-> {}, writes |-> {q.key}]

\* Executor::execute: the statement's result summary, rows discarded
execute(s, q, fail) == [Run(s, q, fail) EXCEPT !.rows = {}]

\* Executor::fetch_one: the first row, Error::RowNotFound when there is none
fetch_one(s, q, fail) ==
    LET r == Run(s, q, fail)
    IN  IF r.err = NoError /\ r.rows = {} THEN [r EXCEPT !.err = RowNotFound] ELSE r

\* Executor::fetch_all: every row, possibly none
fetch_all(s, q, fail) == Run(s, q, fail)

\* the rows a statement wrote land in the open transaction of the session,
\* or are committed at once when the session is in autocommit mode
WriteTxs(s, writes) ==
    IF txs[s] = <<>> THEN txs
    ELSE [txs EXCEPT ![s][Len(txs[s])] = @ \cup writes]
WriteDb(s, writes) == IF txs[s] = <<>> THEN db \cup writes ELSE db

\* ---- driver: transaction primitives on a session's stack -----------------
BeginSql(depth) == IF depth = 0 THEN "BEGIN" ELSE "SAVEPOINT"
CommitSql(depth) == IF depth = 1 THEN "COMMIT" ELSE "RELEASE SAVEPOINT"
RollbackSql(depth) == IF depth = 1 THEN "ROLLBACK" ELSE "ROLLBACK TO SAVEPOINT"

\* Connection::begin
TxBegin(stack) == Append(stack, {})

\* Transaction::commit: the stack after it and the rows it makes durable
TxCommit(stack) ==
    LET d == Len(stack)
    IN  IF d = 0 THEN [stack |-> stack, durable |-> {}]
        ELSE IF d = 1 THEN [stack |-> <<>>, durable |-> stack[1]]
        ELSE [stack |-> [SubSeq(stack, 1, d - 1) EXCEPT ![d - 1] = @ \cup stack[d]],
              durable |-> {}]

\* Transaction::rollback, and the rollback queued by dropping an open handle
TxRollback(stack) ==
    IF stack = <<>> THEN stack ELSE SubSeq(stack, 1, Len(stack) - 1)

\* ---- SqlConnection values -------------------------------------------------
NoConn == [kind |-> "None", sid |-> 0, trans |-> FALSE]
\* From<PoolConnection> for SqlConnection
From(s) == [kind |-> "PoolConn", sid |-> s, trans |-> FALSE]
\* the value SqlConnection::open builds
Standalone(s) == [kind |-> "Conn", sid |-> s, trans |-> FALSE]

\* the record of an operation: whether a Transaction was open on the
\* connection at entry; the handle it went through ("session", "trans", and
\* for a release where the session went: "pool" or "closed"); the result code
\* the caller got; the driver calls issued; and n, the number of rows it
\* returned (queries), made durable (commit) or discarded (rollback, drop);
\* and failed, whether a driver call it made returned an error
Op(name, c, via, res, log, n) ==
    [op |-> name, hadTrans |-> c.trans, via |-> via, res |-> res, log |-> log,
     n |-> n, failed |-> FALSE]
PoolOp(name, res) ==
    [op |-> name, hadTrans |-> FALSE, via |-> "none", res |-> res,
     log |-> <<>>, n |-> 0, failed |-> FALSE]
\* the record of an operation whose driver call returned e
WithError(rec, e) == [rec EXCEPT !.failed = (e # NoError)]

\* (variant: statements always sent to the underlying session)
RouteAlwaysSession(c) == "session"

\* the handle a statement is routed through: `if self.trans.is_none()`
Route(c) == IF ~c.trans THEN "session" ELSE "trans"

\* the pool just opened, nothing leased, table t empty; its id column is
\* declared PRIMARY KEY
Init ==
    /\ keyKind = "PrimaryKey"
    /\ db = {}
    /\ txs = [s \in Sessions |-> <<>>]
    /\ slot = [s \in PoolSessions |-> "idle"]
    /\ pc = [t \in Tasks |-> "idle"]
    /\ conn = [t \in Tasks |-> NoConn]
    /\ last = PoolOp("open", "Ok")
    /\ norm = NoCall

\* the same, for either declaration of the id column: PRIMARY KEY or UNIQUE
InitAnyKey ==
    /\ keyKind \in {"PrimaryKey", "UniqueKey"}
    /\ db = {}
    /\ txs = [s \in Sessions |-> <<>>]
    /\ slot = [s \in PoolSessions |-> "idle"]
    /\ pc = [t \in Tasks |-> "idle"]
    /\ conn = [t \in Tasks |-> NoConn]
    /\ last = PoolOp("open", "Ok")
    /\ norm = NoCall

\* ---- SqlPool::get_conn ----------------------------------------------------
\* the call suspends in pool.acquire()
get_conn(t) ==
    /\ pc[t] = "idle"
    /\ pc' = [pc EXCEPT ![t] = "waiting"]
    /\ last' = PoolOp("get_conn", "Pending")
    /\ UNCHANGED <<norm, keyKind, db, txs, slot, conn>>

\* (variant: a pool that does not account for its leases)
AcquirableIgnoringLeases(s) == s \in PoolSessions

\* the pool may hand out session s: it is not leased
Acquirable(s) == slot[s] = "idle"

\* (variant: an acquire() that does not mark the session as leased)
acquire_without_lease(t, s) ==
    /\ pc[t] = "waiting"
    /\ Acquirable(s)
    /\ conn' = [conn EXCEPT ![t] = From(s)]
    /\ pc' = [pc EXCEPT ![t] = "holding"]
    /\ last' = PoolOp("acquire", "Ok")
    /\ UNCHANGED <<norm, keyKind, db, txs, slot>>

\* pool.acquire() resumes with an idle session of the pool
acquire(t, s) ==
    /\ pc[t] = "waiting"
    /\ Acquirable(s)
    /\ slot' = [slot EXCEPT ![s] = "leased"]
    /\ conn' = [conn EXCEPT ![t] = From(s)]
    /\ pc' = [pc EXCEPT ![t] = "holding"]
    /\ last' = PoolOp("acquire", "Ok")
    /\ UNCHANGED <<norm, keyKind, db, txs>>

\* (variant: a pool whose acquire() has no time-out)
acquire_without_timeout(t) ==
    /\ pc[t] = "waiting"
    /\ FALSE
    /\ UNCHANGED vars

\* pool.acquire() gives up after acquire_timeout with Error::PoolTimedOut
acquire_timeout(t) ==
    /\ pc[t] = "waiting"
    /\ \A s \in PoolSessions : ~Acquirable(s)
    /\ pc' = [pc EXCEPT ![t] = "idle"]
    /\ last' = WithError(PoolOp("acquire_timeout", map_err(PoolTimedOut, "get_conn")),
                         PoolTimedOut)
    /\ UNCHANGED <<norm, keyKind, db, txs, slot, conn>>

\* ---- SqlConnection::open ---------------------------------------------------
open(t, fail) ==
    /\ pc[t] = "idle"
    /\ IF fail
       THEN /\ last' = WithError(PoolOp("open_conn", map_err(Io, "open")), Io)
            /\ UNCHANGED <<pc, conn>>
       ELSE /\ conn' = [conn EXCEPT ![t] = Standalone(StandaloneSession(t))]
            /\ pc' = [pc EXCEPT ![t] = "holding"]
            /\ last' = PoolOp("open_conn", "Ok")
    /\ UNCHANGED <<norm, keyKind, db, txs, slot>>

\* ---- SqlConnection::execute_sql / query_one / query_all -------------------
\* (variant: an execute_sql that rolls the open Transaction back when the
\* statement failed)
execute_sql_rolling_back(t, q, fail) ==
    /\ pc[t] = "holding"
    /\ LET c == conn[t]
           r == execute(c.sid, q, fail)
       IN  /\ IF r.err # NoError /\ c.trans
              THEN /\ txs' = [txs EXCEPT ![c.sid] = TxRollback(txs[c.sid])]
                   /\ conn' = [conn EXCEPT ![t].trans = FALSE]
              ELSE /\ txs' = WriteTxs(c.sid, r.writes)
                   /\ conn' = conn
           /\ db' = WriteDb(c.sid, r.writes)
           /\ last' = WithError(Op("execute_sql", c, Route(c),
                                   map_err(r.err, "sql"), <<"execute">>, 0),
                                r.err)
    /\ UNCHANGED <<norm, keyKind, slot, pc>>

\* (variant: an execute_sql that calls the driver again when the call failed)
execute_sql_retrying(t, q, fail) ==
    /\ pc[t] = "holding"
    /\ LET c == conn[t]
           first == execute(c.sid, q, fail)
           r == IF first.err = NoError THEN first ELSE execute(c.sid, q, FALSE)
       IN  /\ txs' = WriteTxs(c.sid, r.writes)
           /\ db' = WriteDb(c.sid, r.writes)
           /\ last' = WithError(Op("execute_sql", c, Route(c), map_err(r.err, "sql"),
                                   IF first.err = NoError THEN <<"execute">>
                                   ELSE <<"execute", "execute">>, 0),
                                first.err)
    /\ UNCHANGED <<norm, keyKind, slot, pc, conn>>

execute_sql(t, q, fail) ==
    /\ pc[t] = "holding"
    /\ LET c == conn[t]
           r == execute(c.sid, q, fail)
       IN  /\ txs' = WriteTxs(c.sid, r.writes)
           /\ db' = WriteDb(c.sid, r.writes)
           /\ last' = WithError(Op("execute_sql", c, Route(c),
                            map_err(r.err, "sql"), <<"execute">>, 0),
                         r.err)
    /\ UNCHANGED <<norm, keyKind, slot, pc, conn>>

query_one(t, q, fail) ==
    /\ pc[t] = "holding"
    /\ LET c == conn[t]
           r == fetch_one(c.sid, q, fail)
       IN  /\ txs' = WriteTxs(c.sid, r.writes)
           /\ db' = WriteDb(c.sid, r.writes)
           /\ last' = WithError(Op("query_one", c, Route(c),
                            map_err(r.err, "sql"), <<"fetch_one">>, Cardinality(r.rows)),
                         r.err)
    /\ UNCHANGED <<norm, keyKind, slot, pc, conn>>

\* (variant: a query_all that fetches with fetch_one)
query_all_by_fetch_one(t, q, fail) ==
    /\ pc[t] = "holding"
    /\ LET c == conn[t]
           r == fetch_one(c.sid, q, fail)
       IN  /\ txs' = WriteTxs(c.sid, r.writes)
           /\ db' = WriteDb(c.sid, r.writes)
           /\ last' = WithError(Op("query_all", c, Route(c),
                            map_err(r.err, "sql"), <<"fetch_one">>, Cardinality(r.rows)),
                         r.err)
    /\ UNCHANGED <<norm, keyKind, slot, pc, conn>>

query_all(t, q, fail) ==
    /\ pc[t] = "holding"
    /\ LET c == conn[t]
           r == fetch_all(c.sid, q, fail)
       IN  /\ txs' = WriteTxs(c.sid, r.writes)
           /\ db' = WriteDb(c.sid, r.writes)
           /\ last' = WithError(Op("query_all", c, Route(c),
                            map_err(r.err, "sql"), <<"fetch_all">>, Cardinality(r.rows)),
                         r.err)
    /\ UNCHANGED <<norm, keyKind, slot, pc, conn>>

\* ---- SqlConnection::is_column_exist / is_index_exist (sqlite.rs) ----------
\* n of the record is 1 for Ok(true) and 0 for Ok(false)
\* (variant: an is_column_exist that propagates the error of query_one with ?)
is_column_exist_propagating(t, table_name, column_name, fail) ==
    /\ pc[t] = "holding"
    /\ LET c == conn[t]
           r == fetch_one(c.sid, ColumnQuery(table_name, column_name), fail)
           ret == map_err(r.err, "sql")
       IN  last' = WithError(Op("is_column_exist", c, Route(c), ret,
                                <<"fetch_one">>, IF ret # "Ok" THEN 0 ELSE 1),
                             r.err)
    /\ UNCHANGED <<norm, keyKind, db, txs, slot, pc, conn>>

is_column_exist(t, table_name, column_name, fail) ==
    /\ pc[t] = "holding"
    /\ LET c == conn[t]
           r == fetch_one(c.sid, ColumnQuery(table_name, column_name), fail)
           ret == map_err(r.err, "sql")
       IN  last' = WithError(Op("is_column_exist", c, Route(c), "Ok",
                                <<"fetch_one">>, IF ret # "Ok" THEN 0 ELSE 1),
                             r.err)
    /\ UNCHANGED <<norm, keyKind, db, txs, slot, pc, conn>>

is_index_exist(t, table_name, index_name, fail) ==
    /\ pc[t] = "holding"
    /\ LET c == conn[t]
           r == fetch_one(c.sid, IndexQuery(table_name, index_name), fail)
           ret == map_err(r.err, "sql")
       IN  last' = WithError(Op("is_index_exist", c, Route(c), "Ok",
                                <<"fetch_one">>, IF ret # "Ok" THEN 0 ELSE 1),
                             r.err)
    /\ UNCHANGED <<norm, keyKind, db, txs, slot, pc, conn>>

\* ---- Transaction handles --------------------------------------------------
\* Drop for Transaction: a handle dropped while open queues a rollback at the
\* session's current depth (TransactionManager::start_rollback)
DropTransaction(isOpen, stack) == IF isOpen THEN TxRollback(stack) ELSE stack
DropLog(isOpen, stack) ==
    IF isOpen /\ stack # <<>> THEN <<"start_rollback">> ELSE <<>>

\* `this.trans = Some(trans)`: the assignment drops the value trans held
AssignTrans(c, stack) == DropTransaction(c.trans, stack)

\* ---- SqlConnection::begin_transaction -------------------------------------
\* (variant: a begin_transaction that marks the Transaction open before the
\* driver has begun it)
begin_marking_first(t, fail) ==
    /\ pc[t] = "holding"
    /\ LET c == conn[t]
           s == c.sid
           sql == BeginSql(Len(txs[s]))
       IN  IF fail
           THEN /\ last' = WithError(Op("begin_transaction", c, "session",
                                        map_err(Io, "begin trans"), <<sql>>, 0),
                                     Io)
                /\ conn' = [conn EXCEPT ![t].trans = TRUE]
                /\ UNCHANGED txs
           ELSE /\ txs' = [txs EXCEPT ![s] = AssignTrans(c, TxBegin(txs[s]))]
                /\ conn' = [conn EXCEPT ![t].trans = TRUE]
                /\ last' = Op("begin_transaction", c, "session", "Ok",
                              <<sql>> \o DropLog(c.trans, TxBegin(txs[s])), 0)
    /\ UNCHANGED <<norm, keyKind, db, slot, pc>>

begin_transaction(t, fail) ==
    /\ pc[t] = "holding"
    /\ LET c == conn[t]
           s == c.sid
           sql == BeginSql(Len(txs[s]))
       IN  IF fail
           THEN /\ last' = WithError(Op("begin_transaction", c, "session",
                                        map_err(Io, "begin trans"), <<sql>>, 0),
                                     Io)
                /\ UNCHANGED <<txs, conn>>
           ELSE /\ txs' = [txs EXCEPT ![s] = AssignTrans(c, TxBegin(txs[s]))]
                /\ conn' = [conn EXCEPT ![t].trans = TRUE]
                /\ last' = Op("begin_transaction", c, "session", "Ok",
                              <<sql>> \o DropLog(c.trans, TxBegin(txs[s])), 0)
    /\ UNCHANGED <<norm, keyKind, db, slot, pc>>

\* ---- SqlConnection::rollback_transaction ----------------------------------
\* (variant: a rollback_transaction that finalizes with commit())
rollback_by_commit(t, fail) ==
    /\ pc[t] = "holding"
    /\ LET c == conn[t]
           s == c.sid
       IN  IF ~c.trans
           THEN /\ last' = Op("rollback_transaction", c, "none", "Ok", <<>>, 0)
                /\ UNCHANGED <<txs, conn, db>>
           ELSE /\ conn' = [conn EXCEPT ![t].trans = FALSE]
                /\ txs' = [txs EXCEPT ![s] = TxCommit(txs[s]).stack]
                /\ db' = db \cup TxCommit(txs[s]).durable
                /\ last' = Op("rollback_transaction", c, "trans", "Ok",
                              <<CommitSql(Len(txs[s]))>>,
                              Cardinality(Pending(txs[s])))
    /\ UNCHANGED <<norm, keyKind, slot, pc>>

rollback_transaction(t, fail) ==
    /\ pc[t] = "holding"
    /\ LET c == conn[t]
           s == c.sid
           sql == RollbackSql(Len(txs[s]))
       IN  IF ~c.trans
           THEN /\ last' = Op("rollback_transaction", c, "none", "Ok",
                              <<>>, 0)
                /\ UNCHANGED <<txs, conn>>
           ELSE /\ conn' = [conn EXCEPT ![t].trans = FALSE]
                /\ IF fail
                   THEN \* rollback() failed: the consumed handle is dropped open
                        /\ txs' = [txs EXCEPT ![s] = DropTransaction(TRUE, txs[s])]
                        /\ last' = WithError(Op("rollback_transaction", c, "trans",
                                                map_err(Io, "rollback trans"),
                                                <<sql>> \o DropLog(TRUE, txs[s]),
                                                Cardinality(Pending(txs[s]))),
                                             Io)
                   ELSE /\ txs' = [txs EXCEPT ![s] = TxRollback(txs[s])]
                        /\ last' = Op("rollback_transaction", c, "trans",
                                      "Ok", <<sql>>,
                                      Cardinality(Pending(txs[s])))
    /\ UNCHANGED <<norm, keyKind, db, slot, pc>>

\* ---- SqlConnection::commit_transaction ------------------------------------
\* (variant: a commit_transaction without the `self.trans.is_none()` return)
commit_unguarded(t, fail) ==
    /\ pc[t] = "holding"
    /\ LET c == conn[t]
           s == c.sid
       IN  /\ conn' = [conn EXCEPT ![t].trans = FALSE]
           /\ txs' = [txs EXCEPT ![s] = TxCommit(txs[s]).stack]
           /\ db' = db \cup TxCommit(txs[s]).durable
           /\ last' = Op("commit_transaction", c, "trans", "Ok",
                         <<CommitSql(Len(txs[s]))>>,
                         Cardinality(TxCommit(txs[s]).durable))
    /\ UNCHANGED <<norm, keyKind, slot, pc>>

\* (variant: a commit_transaction that keeps the Transaction when commit()
\* fails)
commit_keeping_on_failure(t, fail) ==
    /\ pc[t] = "holding"
    /\ LET c == conn[t]
           s == c.sid
           sql == CommitSql(Len(txs[s]))
       IN  IF ~c.trans
           THEN /\ last' = Op("commit_transaction", c, "none", "Ok",
                              <<>>, 0)
                /\ UNCHANGED <<txs, conn, db>>
           ELSE IF fail
                THEN /\ last' = WithError(Op("commit_transaction", c, "trans",
                                             map_err(Io, "commit trans"),
                                             <<sql>>, 0), Io)
                     /\ UNCHANGED <<txs, conn, db>>
                ELSE /\ conn' = [conn EXCEPT ![t].trans = FALSE]
                     /\ txs' = [txs EXCEPT ![s] = TxCommit(txs[s]).stack]
                     /\ db' = db \cup TxCommit(txs[s]).durable
                     /\ last' = Op("commit_transaction", c, "trans",
                                   "Ok", <<sql>>,
                                   Cardinality(TxCommit(txs[s]).durable))
    /\ UNCHANGED <<norm, keyKind, slot, pc>>

commit_transaction(t, fail) ==
    /\ pc[t] = "holding"
    /\ LET c == conn[t]
           s == c.sid
           sql == CommitSql(Len(txs[s]))
       IN  IF ~c.trans
           THEN /\ last' = Op("commit_transaction", c, "none", "Ok",
                              <<>>, 0)
                /\ UNCHANGED <<txs, conn, db>>
           ELSE /\ conn' = [conn EXCEPT ![t].trans = FALSE]
                /\ IF fail
                   THEN \* commit() failed: the consumed handle is dropped open
                        /\ txs' = [txs EXCEPT ![s] = DropTransaction(TRUE, txs[s])]
                        /\ db' = db
                        /\ last' = WithError(Op("commit_transaction", c, "trans",
                                                map_err(Io, "commit trans"),
                                                <<sql>> \o DropLog(TRUE, txs[s]), 0),
                                             Io)
                   ELSE /\ txs' = [txs EXCEPT ![s] = TxCommit(txs[s]).stack]
                        /\ db' = db \cup TxCommit(txs[s]).durable
                        /\ last' = Op("commit_transaction", c, "trans",
                                      "Ok", <<sql>>,
                                      Cardinality(TxCommit(txs[s]).durable))
    /\ UNCHANGED <<norm, keyKind, slot, pc>>

\* ---- Drop for SqlConnection -----------------------------------------------
\* (variant: a drop() that finalizes the open Transaction with commit())
drop_by_commit(t, fail) ==
    /\ pc[t] = "holding"
    /\ LET c == conn[t]
           s == c.sid
       IN  IF c.trans
           THEN /\ conn' = [conn EXCEPT ![t].trans = FALSE]
                /\ txs' = [txs EXCEPT ![s] = TxCommit(txs[s]).stack]
                /\ db' = db \cup TxCommit(txs[s]).durable
                /\ pc' = [pc EXCEPT ![t] = "rolled_back"]
                /\ last' = Op("drop", c, "trans", "Ok",
                              <<CommitSql(Len(txs[s]))>>,
                              Cardinality(Pending(txs[s])))
           ELSE /\ pc' = [pc EXCEPT ![t] = "dropped"]
                /\ last' = Op("drop", c, "none", "Ok", <<>>, 0)
                /\ UNCHANGED <<txs, conn, db>>
    /\ UNCHANGED <<norm, keyKind, slot>>

\* (variant: a drop() that leaves the open Transaction alone)
drop_without_rollback(t, fail) ==
    /\ pc[t] = "holding"
    /\ pc' = [pc EXCEPT ![t] = "dropped"]
    /\ last' = Op("drop", conn[t], "none", "Ok", <<>>, 0)
    /\ UNCHANGED <<norm, keyKind, db, txs, slot, conn>>

\* (variant: a drop() that unwraps the rollback's result: a failed rollback
\* panics, the error reaches the caller and the fields are not dropped)
drop_unwrapping_rollback(t, fail) ==
    /\ pc[t] = "holding"
    /\ LET c == conn[t]
           s == c.sid
           sql == RollbackSql(Len(txs[s]))
       IN  IF c.trans
           THEN /\ conn' = [conn EXCEPT ![t].trans = FALSE]
                /\ txs' = [txs EXCEPT ![s] =
                              IF fail THEN DropTransaction(TRUE, txs[s])
                              ELSE TxRollback(txs[s])]
                /\ pc' = [pc EXCEPT ![t] = IF fail THEN "holding" ELSE "rolled_back"]
                /\ last' = WithError(Op("drop", c, "trans",
                              IF fail THEN map_err(Io, "rollback trans") ELSE "Ok",
                              IF fail THEN <<sql>> \o DropLog(TRUE, txs[s])
                              ELSE <<sql>>,
                              Cardinality(Pending(txs[s]))),
                              IF fail THEN Io ELSE NoError)
           ELSE /\ pc' = [pc EXCEPT ![t] = "dropped"]
                /\ last' = Op("drop", c, "none", "Ok", <<>>, 0)
                /\ UNCHANGED <<txs, conn>>
    /\ UNCHANGED <<norm, keyKind, db, slot>>

\* the body of drop(): an open Transaction is taken and rolled back inside
\* block_on, the rollback's result discarded
drop(t, fail) ==
    /\ pc[t] = "holding"
    /\ LET c == conn[t]
           s == c.sid
           sql == RollbackSql(Len(txs[s]))
       IN  IF c.trans
           THEN /\ conn' = [conn EXCEPT ![t].trans = FALSE]
                /\ txs' = [txs EXCEPT ![s] =
                              IF fail THEN DropTransaction(TRUE, txs[s])
                              ELSE TxRollback(txs[s])]
                /\ pc' = [pc EXCEPT ![t] = "rolled_back"]
                /\ last' = WithError(Op("drop", c, "trans", "Ok",
                                        IF fail THEN <<sql>> \o DropLog(TRUE, txs[s])
                                        ELSE <<sql>>,
                                        Cardinality(Pending(txs[s]))),
                                     IF fail THEN Io ELSE NoError)
           ELSE /\ pc' = [pc EXCEPT ![t] = "dropped"]
                /\ last' = Op("drop", c, "none", "Ok", <<>>, 0)
                /\ UNCHANGED <<txs, conn>>
    /\ UNCHANGED <<norm, keyKind, db, slot>>

\* then the fields are dropped: a PoolConnection goes back to the pool, a
\* standalone connection is closed (the database discards what it left open)
release(t) ==
    /\ pc[t] \in {"dropped", "rolled_back"}
    /\ LET c == conn[t]
           s == c.sid
       IN  /\ IF c.kind = "PoolConn"
              THEN /\ slot' = [slot EXCEPT ![s] = "idle"]
                   /\ txs' = txs
              ELSE /\ txs' = [txs EXCEPT ![s] = <<>>]
                   /\ slot' = slot
           /\ last' = [Op("release", c,
                            IF c.kind = "PoolConn" THEN "pool" ELSE "closed",
                            "Ok", <<>>, 0)
                         EXCEPT !.hadTrans = (pc[t] = "rolled_back")]
    /\ conn' = [conn EXCEPT ![t] = NoConn]
    /\ pc' = [pc EXCEPT ![t] = "idle"]
    /\ UNCHANGED <<norm, keyKind, db>>

\* ---- the system -----------------------------------------------------------
\* the calls of a statement method: each statement with the driver working,
\* and one call on which the driver fails (the statement does not matter then)
Calls ==
    {[q |-> q, fail |-> FALSE] : q \in Statements} \cup {[q |-> BadSql, fail |-> TRUE]}

\* the arguments of the catalog checks: the table and another one, a column
\* of the table and a name that is none, the index and a name that is none
TableNames == {"t", "u"}
ColumnNames == {<<"i", "d">>, <<"x">>}
IndexNames == {"t_idx", "u_idx"}

Next ==
    \E t \in Tasks :
        \/ get_conn(t)
        \/ \E s \in PoolSessions : acquire(t, s)
        \/ acquire_timeout(t)
        \/ \E fail \in BOOLEAN : open(t, fail)
        \/ \E c \in Calls : execute_sql(t, c.q, c.fail)
        \/ \E c \in Calls : query_one(t, c.q, c.fail)
        \/ \E c \in Calls : query_all(t, c.q, c.fail)
        \/ \E fail \in BOOLEAN : begin_transaction(t, fail)
        \/ \E fail \in BOOLEAN : rollback_transaction(t, fail)
        \/ \E fail \in BOOLEAN : commit_transaction(t, fail)
        \/ \E fail \in BOOLEAN : drop(t, fail)
        \/ release(t)

Spec == Init /\ [][Next]_vars

\* the system over a table of either key declaration
SpecAnyKey == InitAnyKey /\ [][Next]_vars

\* the future of pool.acquire() is polled to completion: a suspended get_conn
\* resumes, with a session when one is idle and with Error::PoolTimedOut once
\* acquire_timeout (300 s) has elapsed without one
AcquireCompletes(t) ==
    (\E s \in PoolSessions : acquire(t, s)) \/ acquire_timeout(t)

\* the lifecycle of connections: every operation but the three statement
\* methods, which leave pc, slot and conn as they are
LifecycleNext ==
    \E t \in Tasks :
        \/ get_conn(t)
        \/ \E s \in PoolSessions : acquire(t, s)
        \/ acquire_timeout(t)
        \/ \E fail \in BOOLEAN : open(t, fail)
        \/ \E fail \in BOOLEAN : begin_transaction(t, fail)
        \/ \E fail \in BOOLEAN : rollback_transaction(t, fail)
        \/ \E fail \in BOOLEAN : commit_transaction(t, fail)
        \/ \E fail \in BOOLEAN : drop(t, fail)
        \/ release(t)

\* the lifecycle together with SQLite's two catalog checks, which change no
\* state of the connection or the database
CatalogNext ==
    \/ LifecycleNext
    \/ \E t \in Tasks, tn \in TableNames, cn \in ColumnNames, fail \in BOOLEAN :
          is_column_exist(t, tn, cn, fail)
    \/ \E t \in Tasks, tn \in TableNames, xn \in IndexNames, fail \in BOOLEAN :
          is_index_exist(t, tn, xn, fail)

CatalogSpec == Init /\ [][CatalogNext]_vars

\* and drop is straight-line code: once the body of drop() has returned, the
\* fields of the SqlConnection are dropped
FairSpec ==
    /\ Init /\ [][LifecycleNext]_vars
    /\ \A t \in Tasks : WF_vars(AcquireCompletes(t))
    /\ \A t \in Tasks : WF_vars(release(t))

TypeOK ==
    /\ keyKind \in {"PrimaryKey", "UniqueKey"}
    /\ db \subseteq Keys
    /\ \A s \in Sessions : Len(txs[s]) <= 1 /\ \A i \in 1 .. Len(txs[s]) : txs[s][i] \subseteq Keys
    /\ slot \in [PoolSessions -> {"idle", "leased"}]
    /\ pc \in [Tasks -> {"idle", "waiting", "holding", "dropped", "rolled_back"}]
    /\ \A t \in Tasks : conn[t].kind \in {"None", "PoolConn", "Conn"}
    /\ last.res \in SqlErrorCode \cup {"Ok", "Pending"}

\* ==== the claims ===========================================================
PoolLeased == {t \in Tasks : pc[t] # "idle" /\ conn[t].kind = "PoolConn"}
Releasing(t) == pc[t] \in {"dropped", "rolled_back"} /\ pc'[t] = "idle"
Dropping(t) == pc[t] = "holding" /\ pc'[t] \in {"dropped", "rolled_back"}

\* C1: when a SqlConnection holding an open Transaction is dropped, the drop
\* rolls the Transaction back first (a ROLLBACK is issued, the session's
\* uncommitted writes are gone, the session is still leased), and only a
\* later step hands the session back to the pool or closes it: at the step
\* that makes a session acquirable again nothing is open on it.
C1_RollbackBeforeRelease ==
    [][ /\ \A t \in Tasks :
              (Dropping(t) /\ conn[t].trans) =>
                  /\ pc'[t] = "rolled_back"
                  /\ last'.op = "drop" /\ Head(last'.log) = "ROLLBACK"
                  /\ txs'[conn[t].sid] = <<>>
                  /\ ~conn'[t].trans
                  /\ slot' = slot
        /\ \A t \in Tasks :
              Releasing(t) => txs[conn[t].sid] = <<>> /\ ~conn[t].trans
        /\ \A s \in PoolSessions :
              (slot[s] = "leased" /\ slot'[s] = "idle") =>
                  /\ txs[s] = <<>>
                  /\ \E t \in Tasks : Releasing(t) /\ conn[t].sid = s
      ]_vars

\* C1 witness: a pool connection dropped with an open Transaction has been
\* released, its session is idle in the pool and nothing was committed
C1_Witness ==
    /\ last.op = "release" /\ last.hadTrans /\ last.via = "pool"
    /\ \E s \in PoolSessions : slot[s] = "idle" /\ txs[s] = <<>>
    /\ db = {}

\* C2: with max_connections = MaxConnections, the tasks holding a pool-leased
\* connection are never more than MaxConnections, and a get_conn returns a
\* connection only at a step before which fewer than MaxConnections were
\* leased: with all of them leased it stays suspended until a release.
C2_AtMostMaxLeased ==
    /\ [](Cardinality(PoolLeased) <= MaxConnections)
    /\ [][ \A t \in Tasks :
              (pc[t] = "waiting" /\ pc'[t] = "holding") =>
                  /\ Cardinality(PoolLeased) < MaxConnections
                  /\ \E s \in PoolSessions :
                        /\ slot[s] = "idle" /\ slot'[s] = "leased"
                        /\ conn'[t] = From(s)
         ]_vars

\* C2 witness: every pool session is leased and one more get_conn is suspended
C2_Witness ==
    /\ Cardinality(PoolLeased) = MaxConnections
    /\ \A s \in PoolSessions : slot[s] = "leased"
    /\ \E t \in Tasks : pc[t] = "waiting"

\* the rows some session can observe
Observable == db \cup UNION {Pending(txs[s]) : s \in Sessions}
StatementOps == {"execute_sql", "query_one", "query_all"}

\* C3: the rows written inside a Transaction are observable on no connection
\* once rollback_transaction has returned, and are committed (observable on
\* every connection) once commit_transaction has returned success; later
\* steps bring a row into any connection's view only by executing a
\* statement or by a commit_transaction, and never remove a committed row.
C3_RollbackHidesCommitShows ==
    [][ /\ \A t \in Tasks :
              (last'.op = "rollback_transaction" /\ conn[t].trans /\ ~conn'[t].trans) =>
                  Pending(txs[conn[t].sid]) \cap Observable' = {}
        /\ \A t \in Tasks :
              (last'.op = "commit_transaction" /\ last'.res = "Ok"
                  /\ conn[t].trans /\ ~conn'[t].trans) =>
                  /\ Pending(txs[conn[t].sid]) \subseteq db'
                  /\ \A s \in Sessions : Pending(txs[conn[t].sid]) \subseteq Visible(s)'
        /\ db \subseteq db'
        /\ (\E s \in Sessions : ~(Visible(s)' \subseteq Visible(s))) =>
              last'.op \in StatementOps \cup {"commit_transaction"}
      ]_vars

\* C3 witness: rollback_transaction has just discarded a row written inside
\* the Transaction, and no connection observes any row
C3_Witness ==
    /\ last.op = "rollback_transaction" /\ last.hadTrans /\ last.n > 0
    /\ Observable = {}

\* C4 (as claimed): begin_transaction on a connection whose Transaction is
\* open either returns an error and changes nothing, or rolls the open
\* Transaction back (a ROLLBACK, discarding its writes) before it begins the
\* new one.
C4_SecondBeginRejectedOrRollsBack ==
    [][ (last'.op = "begin_transaction" /\ last'.hadTrans) =>
           \/ last'.res # "Ok" /\ UNCHANGED <<db, txs, conn>>
           \/ /\ last'.log = <<"ROLLBACK", "BEGIN">>
              /\ \A s \in Sessions :
                    txs'[s] # txs[s] => Pending(txs[s]) \cap Pending(txs'[s]) = {}
      ]_vars

\* C5: release never commits.  Dropping and releasing a connection change no
\* committed row and leave nothing pending on its session; rows written with
\* a Transaction open become committed only by a commit_transaction that
\* returns success; and a pool session that is idle (acquirable) has no
\* transaction open and no uncommitted write.
C5_ReleaseNeverCommits ==
    /\ [](\A s \in PoolSessions : slot[s] = "idle" => txs[s] = <<>>)
    /\ [][ /\ \A t \in Tasks :
                 (Dropping(t) \/ Releasing(t)) =>
                     /\ db' = db
                     /\ txs'[conn[t].sid] = <<>>
                     /\ Observable' \subseteq Observable
           /\ (db' # db) =>
                 \/ last'.op = "commit_transaction" /\ last'.res = "Ok"
                 \/ last'.op \in StatementOps /\ ~last'.hadTrans
         ]_vars

\* C5 witness: a connection was dropped while its Transaction held an
\* uncommitted row; the row was discarded and nothing is committed
C5_Witness ==
    /\ last.op = "drop" /\ last.hadTrans /\ last.n > 0
    /\ db = {}
    /\ \E t \in Tasks : pc[t] = "rolled_back" /\ txs[conn[t].sid] = <<>>

\* C6: commit_transaction and rollback_transaction on a connection with no
\* open Transaction return Ok, issue no driver call and change neither the
\* connection nor the database, every time they are called.
C6_FinalizeWithoutTransactionIsNoOp ==
    [][ (last'.op \in {"commit_transaction", "rollback_transaction"}
            /\ \E t \in Tasks :
                  /\ pc[t] = "holding" /\ ~conn[t].trans
                  /\ \E fail \in BOOLEAN :
                        commit_transaction(t, fail) \/ rollback_transaction(t, fail)) =>
            /\ last'.res = "Ok"
            /\ last'.log = <<>>
            /\ UNCHANGED <<norm, keyKind, db, txs, slot, pc, conn>>
      ]_vars

\* C6 witness: a commit_transaction or rollback_transaction was called with
\* no Transaction open, right after another such call
C6_Witness ==
    /\ last.op \in {"commit_transaction", "rollback_transaction"}
    /\ ~last.hadTrans /\ last.res = "Ok" /\ last.log = <<>>
    /\ \E t \in Tasks : pc[t] = "holding" /\ ~conn[t].trans /\ db # {}

\* C7 (as claimed): an insert of a row whose key is already there (primary key
\* or unique key) returns AlreadyExists, and a syntactically invalid
\* statement returns Failed.  Checked under SpecAnyKey.
C7_DuplicateIsAlreadyExists ==
    [][ last'.op = "execute_sql" =>
           \A t \in Tasks, q \in Statements :
               (pc[t] = "holding" /\ execute_sql(t, q, FALSE)) =>
                   /\ (q.op = "insert" /\ q.key \in Visible(conn[t].sid)
                           /\ ~WriteLocked(conn[t].sid)) =>
                          last'.res = "AlreadyExists"
                   /\ (q.op = "bad") => last'.res = "Failed"
      ]_vars

\* C8: query_one on a statement the driver runs without error and that yields
\* no row returns NotFound, on a pool-leased and on a standalone connection,
\* with and without an open Transaction.
C8_QueryOneZeroRowsNotFound ==
    [][ last'.op = "query_one" =>
           \A t \in Tasks, q \in Statements :
               (/\ pc[t] = "holding"
                /\ Run(conn[t].sid, q, FALSE).err = NoError
                /\ Run(conn[t].sid, q, FALSE).rows = {}
                /\ query_one(t, q, FALSE)) =>
                   last'.res = "NotFound" /\ last'.n = 0
      ]_vars

\* C8 witness: query_one has returned NotFound inside an open Transaction
C8_Witness ==
    /\ last.op = "query_one" /\ last.res = "NotFound" /\ last.hadTrans
    /\ \E t \in Tasks : pc[t] = "holding" /\ conn[t].trans /\ Visible(conn[t].sid) = {}

\* C9: query_all on a statement the driver runs without error and that yields
\* no row returns Ok with an empty sequence, never an error, with and without
\* an open Transaction.
C9_QueryAllZeroRowsEmpty ==
    [][ last'.op = "query_all" =>
           \A t \in Tasks, q \in Statements :
               (/\ pc[t] = "holding"
                /\ Run(conn[t].sid, q, FALSE).err = NoError
                /\ Run(conn[t].sid, q, FALSE).rows = {}
                /\ query_all(t, q, FALSE)) =>
                   last'.res = "Ok" /\ last'.n = 0
      ]_vars

\* C9 witness: query_all has returned Ok with no row inside an open Transaction
C9_Witness ==
    /\ last.op = "query_all" /\ last.res = "Ok" /\ last.n = 0 /\ last.hadTrans
    /\ \E t \in Tasks : pc[t] = "holding" /\ conn[t].trans /\ Visible(conn[t].sid) = {}

\* C10: a held connection has a Transaction handle exactly when its session
\* is inside a transaction, and every execute_sql, query_one and query_all
\* went through the Transaction handle when one was open at the call and
\* directly to the session when none was.
C10_StatementsRoutedThroughTransaction ==
    /\ \A t \in Tasks :
          pc[t] = "holding" => (conn[t].trans <=> txs[conn[t].sid] # <<>>)
    /\ last.op \in StatementOps =>
          last.via = (IF last.hadTrans THEN "trans" ELSE "session")

\* C10 witness: a statement has been executed through the open Transaction,
\* which holds the row it wrote
C10_Witness ==
    /\ last.op = "execute_sql" /\ last.via = "trans" /\ last.res = "Ok"
    /\ \E t \in Tasks : pc[t] = "holding" /\ conn[t].trans /\ Pending(txs[conn[t].sid]) # {}

\* SQLite's uniqueness-violation codes: a duplicate PRIMARY KEY and a duplicate
\* UNIQUE key
UniquenessViolationCodes ==
    {SQLITE_CONSTRAINT_PRIMARYKEY, SQLITE_CONSTRAINT_UNIQUE}

\* C11 (as claimed): the normalizer's result code is a total function of the
\* native error alone: RowNotFound gives NotFound; a database error whose
\* code is a uniqueness-violation code of the backend gives AlreadyExists;
\* every other database error and every other native error gives Failed; and
\* the code is the same for every context message.  Checked under MapSpec.
C11_CodeIsFunctionOfNativeError ==
    norm.done =>
        /\ norm.out.code \in SqlErrorCode
        /\ norm.out.code =
              (IF norm.e.kind = "RowNotFound" THEN "NotFound"
               ELSE IF norm.e.kind = "Database"
                       /\ norm.e.code \in UniquenessViolationCodes
                    THEN "AlreadyExists"
               ELSE "Failed")
        /\ \A m \in Contexts : map(norm.e, m).code = norm.out.code

\* C12: every get_conn call eventually returns.  A suspended call resumes
\* either holding a pool-leased connection, taken from a session that was
\* idle, or with an error of code Failed when the time-out elapsed with every
\* session leased; and once a session is idle (a leased connection was
\* released) a waiting call gets a connection unless other callers lease
\* every session first.  Checked under FairSpec.
C12_GetConnEventuallyReturns ==
    /\ \A t \in Tasks : (pc[t] = "waiting") ~> (pc[t] # "waiting")
    /\ \A t \in Tasks :
          (pc[t] = "waiting" /\ \E s \in PoolSessions : slot[s] = "idle")
              ~> (pc[t] = "holding" \/ \A s \in PoolSessions : slot[s] = "leased")
    /\ [][ \A t \in Tasks :
              (pc[t] = "waiting" /\ pc'[t] # "waiting") =>
                  \/ /\ pc'[t] = "holding"
                     /\ conn'[t].kind = "PoolConn" /\ ~conn'[t].trans
                     /\ slot[conn'[t].sid] = "idle"
                     /\ last'.res = "Ok"
                  \/ /\ pc'[t] = "idle"
                     /\ conn'[t] = NoConn
                     /\ \A s \in PoolSessions : slot[s] = "leased"
                     /\ last'.op = "acquire_timeout" /\ last'.res = "Failed"
         ]_vars

\* C12 witness: a get_conn that was suspended with every session leased has
\* returned the time-out error
C12_Witness ==
    /\ last.op = "acquire_timeout" /\ last.res = "Failed"
    /\ \A s \in PoolSessions : slot[s] = "leased"
    /\ \E t \in Tasks : pc[t] = "idle" /\ conn[t] = NoConn

\* the SqlConnection values that hold session s
Holders(s) == {t \in Tasks : conn[t].kind # "None" /\ conn[t].sid = s}

\* C13: no session is held by two SqlConnection values at the same time.  A
\* pool session is held by exactly one SqlConnection while it is leased and
\* by none while it is idle, so it stays with its lessee until that
\* connection is released; a standalone session is held by at most one.
C13_SessionExclusivelyOwned ==
    /\ \A s \in Sessions : Cardinality(Holders(s)) <= 1
    /\ \A s \in PoolSessions :
          Cardinality(Holders(s)) = (IF slot[s] = "leased" THEN 1 ELSE 0)
    /\ \A t \in Tasks : (conn[t].kind # "None") <=> (pc[t] \notin {"idle", "waiting"})

\* C13 witness: two tasks hold connections at the same time, one of them
\* leased from the pool, while the pool has just served a get_conn
C13_Witness ==
    /\ last.op = "acquire"
    /\ \E t1, t2 \in Tasks :
          /\ t1 # t2
          /\ pc[t1] = "holding" /\ conn[t1].kind = "PoolConn"
          /\ pc[t2] \in {"holding", "dropped", "rolled_back"}
          /\ conn[t1].sid # conn[t2].sid

\* the rollback that drop() ran on the open Transaction failed
RollbackInDropFailed ==
    last.op = "drop" /\ last.hadTrans /\ last.failed

\* C14: a failure of the rollback that drop() runs on an open Transaction is
\* swallowed.  The drop of a connection with an open Transaction surfaces no
\* error whether its rollback worked or failed and goes on to drop the
\* fields; that release always completes, returns Ok, and hands a pool
\* session back to the pool (idle, nothing open on it) or closes a standalone
\* one.  Checked under FairSpec.
C14_DropSwallowsRollbackFailure ==
    /\ [](RollbackInDropFailed =>
             /\ last.res = "Ok"
             /\ \E t \in Tasks : pc[t] = "rolled_back" /\ ~conn[t].trans)
    /\ [][ \A t \in Tasks :
              /\ (Dropping(t) /\ conn[t].trans) =>
                    last'.op = "drop" /\ last'.res = "Ok" /\ pc'[t] = "rolled_back"
              /\ Releasing(t) =>
                    /\ last'.op = "release" /\ last'.res = "Ok"
                    /\ conn'[t] = NoConn
                    /\ conn[t].kind = "PoolConn" =>
                          slot'[conn[t].sid] = "idle" /\ last'.via = "pool"
                    /\ conn[t].kind = "Conn" => last'.via = "closed"
                    /\ txs'[conn[t].sid] = <<>>
         ]_vars
    /\ \A t \in Tasks : (pc[t] = "rolled_back") ~> (pc[t] = "idle")

\* C14 witness: the rollback run by the drop of a pool connection failed, no
\* error was surfaced, and the connection is about to be handed back
C14_Witness ==
    /\ RollbackInDropFailed /\ last.res = "Ok"
    /\ \E t \in Tasks :
          /\ pc[t] = "rolled_back" /\ conn[t].kind = "PoolConn"
          /\ slot[conn[t].sid] = "leased"

CatalogOps == {"is_column_exist", "is_index_exist"}

\* C15: on SQLite, is_column_exist and is_index_exist never return an error
\* and change nothing: they return Ok(true) when the catalog query yields a
\* row (the driver worked and a sqlite_master row matches) and Ok(false)
\* when it yields none or the driver call failed.  Checked under CatalogSpec.
C15_CatalogChecksNeverFail ==
    [][ last'.op \in CatalogOps =>
           /\ last'.res = "Ok"
           /\ UNCHANGED <<db, txs, slot, pc, conn>>
           /\ \A t \in Tasks, tn \in TableNames, fail \in BOOLEAN :
                 /\ \A cn \in ColumnNames :
                       (pc[t] = "holding" /\ is_column_exist(t, tn, cn, fail)) =>
                           (last'.n = 1) = (~fail /\ tn = "t" /\ Like(TableSql, cn))
                 /\ \A xn \in IndexNames :
                       (pc[t] = "holding" /\ is_index_exist(t, tn, xn, fail)) =>
                           (last'.n = 1) = (~fail /\ tn = "t" /\ xn = "t_idx")
      ]_vars

\* C15 witness: a catalog check made inside an open Transaction has returned
\* Ok(false)
C15_Witness ==
    /\ last.op \in CatalogOps /\ last.res = "Ok" /\ last.n = 0
    /\ last.hadTrans /\ last.via = "trans"

FinalizeOps == {"commit_transaction", "rollback_transaction"}

\* C16: when commit_transaction or rollback_transaction returns on a
\* connection that had an open Transaction, the connection holds none and
\* its session is in no transaction, whether the driver call worked or
\* failed.  A connection comes to hold a Transaction only by a
\* begin_transaction that returns Ok and loses it only by commit_transaction,
\* rollback_transaction or drop; and a statement called while the connection
\* holds none goes to the session, not to a finalized Transaction.
C16_FinalizeClearsTransaction ==
    [][ /\ (last'.op \in FinalizeOps /\ last'.hadTrans) =>
              \A t \in Tasks :
                  (/\ pc[t] = "holding" /\ conn[t].trans
                   /\ \E fail \in BOOLEAN :
                         commit_transaction(t, fail) \/ rollback_transaction(t, fail)) =>
                      /\ ~conn'[t].trans
                      /\ txs'[conn[t].sid] = <<>>
                      /\ pc'[t] = "holding"
        /\ \A t \in Tasks :
              /\ (~conn[t].trans /\ conn'[t].trans) =>
                    last'.op = "begin_transaction" /\ last'.res = "Ok"
              /\ (conn[t].trans /\ ~conn'[t].trans) =>
                    last'.op \in FinalizeOps \cup {"drop"} /\ last'.hadTrans
        /\ (last'.op \in StatementOps /\ ~last'.hadTrans) =>
              /\ last'.via = "session"
              /\ \A s \in Sessions : Pending(txs'[s]) \subseteq Pending(txs[s])
      ]_vars

\* C16 witness: commit_transaction has failed on an open Transaction and the
\* connection, still held, has no Transaction
C16_Witness ==
    /\ last.op = "commit_transaction" /\ last.hadTrans /\ last.res = "Failed"
    /\ \E t \in Tasks :
          pc[t] = "holding" /\ ~conn[t].trans /\ txs[conn[t].sid] = <<>>

CoreOps == StatementOps \cup FinalizeOps \cup {"begin_transaction"}

\* a call the method itself makes on the driver (not the rollback the driver
\* queues when a Transaction handle is dropped open)
IsPrimitiveCall(x) == x # "start_rollback"
PrimitiveCalls(log) == SelectSeq(log, IsPrimitiveCall)

\* C17: the core never retries.  Each execute_sql, query_one, query_all,
\* begin_transaction, commit_transaction and rollback_transaction has made at
\* most one call on the driver (none when commit or rollback found no
\* Transaction), and when that call failed (an I/O failure, an error of the
\* database, or no row for fetch_one) the method returned a domain error.
C17_AtMostOneDriverCall ==
    last.op \in CoreOps =>
        /\ Len(PrimitiveCalls(last.log)) <= 1
        /\ last.res \in SqlErrorCode \cup {"Ok"}
        /\ last.failed => last.res \in SqlErrorCode
        /\ last.failed => Len(PrimitiveCalls(last.log)) = 1
        /\ (last.op \in FinalizeOps /\ ~last.hadTrans) => last.log = <<>>

\* C17 witness: query_all inside an open Transaction has failed after its
\* one driver call and returned Failed
C17_Witness ==
    /\ last.op = "query_all" /\ last.hadTrans /\ last.res = "Failed"
    /\ last.failed
    /\ last.log = <<"fetch_all">>
    /\ \E t \in Tasks : pc[t] = "holding" /\ conn[t].trans

\* the last operation was a begin_transaction whose driver call failed
BeginFailed == last.op = "begin_transaction" /\ last.failed

\* C18: a begin_transaction whose driver call fails returns an error (Failed)
\* and changes neither any connection nor the database: a connection that
\* had no Transaction has none and its session is in no transaction, and a
\* statement it executes next goes directly to the session and, when it
\* writes, is committed at once.
C18_FailedBeginChangesNothing ==
    [][ /\ BeginFailed' =>
              /\ last'.res = "Failed"
              /\ UNCHANGED <<db, txs, slot, pc, conn>>
              /\ ~last'.hadTrans =>
                    \E t \in Tasks :
                        /\ pc'[t] = "holding" /\ ~conn'[t].trans
                        /\ txs'[conn'[t].sid] = <<>>
        /\ (BeginFailed /\ ~last.hadTrans /\ last'.op \in StatementOps) =>
              \A t \in Tasks, c \in Calls :
                  (/\ pc[t] = "holding" /\ ~conn[t].trans
                   /\ \/ execute_sql(t, c.q, c.fail)
                      \/ query_one(t, c.q, c.fail)
                      \/ query_all(t, c.q, c.fail)) =>
                      /\ last'.via = "session"
                      /\ txs' = txs
                      /\ db' = db \cup Run(conn[t].sid, c.q, c.fail).writes
      ]_vars

\* C18 witness: begin_transaction has failed on a held connection that had
\* no Transaction, and the connection still has none
C18_Witness ==
    /\ BeginFailed /\ ~last.hadTrans /\ last.res = "Failed"
    /\ \E t \in Tasks :
          pc[t] = "holding" /\ ~conn[t].trans /\ txs[conn[t].sid] = <<>>

\* the last operation was a statement method whose driver call failed
StatementFailed == last.op \in StatementOps /\ last.failed

\* C19: a failing execute_sql, query_one or query_all changes no connection:
\* no transaction is begun or ended on any session, no uncommitted write is
\* lost, and with a Transaction open nothing is committed.  The Transaction
\* stays open: the next statement on a connection with a Transaction goes
\* through it, commits nothing, and what execute_sql writes is added to the
\* Transaction's uncommitted writes; and a connection loses its Transaction only by
\* commit_transaction, rollback_transaction or drop, never by a statement.
C19_FailedStatementKeepsTransaction ==
    [][ /\ StatementFailed' =>
              /\ UNCHANGED <<slot, pc, conn>>
              /\ \A s \in Sessions :
                    /\ Len(txs'[s]) = Len(txs[s])
                    /\ Pending(txs[s]) \subseteq Pending(txs'[s])
              /\ last'.hadTrans => db' = db
              /\ last'.via = (IF last'.hadTrans THEN "trans" ELSE "session")
        /\ \A t \in Tasks :
              (conn[t].trans /\ ~conn'[t].trans) => last'.op \notin StatementOps
        /\ (StatementFailed /\ last.hadTrans /\ last'.op \in StatementOps
                /\ last'.hadTrans) =>
              /\ last'.via = "trans"
              /\ db' = db
              /\ \A t \in Tasks, c \in Calls :
                    (/\ pc[t] = "holding" /\ conn[t].trans
                     /\ last'.op = "execute_sql"
                     /\ execute_sql(t, c.q, c.fail)) =>
                        Pending(txs'[conn[t].sid]) =
                            Pending(txs[conn[t].sid])
                                \cup Run(conn[t].sid, c.q, c.fail).writes
      ]_vars

\* C19 witness: a statement has failed inside an open Transaction that holds
\* an uncommitted row, and the Transaction is still open with the row in it
C19_Witness ==
    /\ StatementFailed /\ last.hadTrans /\ last.res = "Failed"
    /\ db = {}
    /\ \E t \in Tasks :
          pc[t] = "holding" /\ conn[t].trans /\ Pending(txs[conn[t].sid]) # {}

====
